---- MODULE Spec2Model ----
(***************************************************************************)
(* Campaign sync service: AdPlatformClient (token cache, rate limiter,     *)
(* request() with classified retries), SyncService (pagination, per-record *)
(* processing, finally/close) and DatabaseService, as one sequential       *)
(* state machine.  Every state is a point where the single thread of       *)
(* control stands; a state whose pc is in Suspended is an await on a timer *)
(* or on I/O.                                                              *)
(*                                                                         *)
(* Time.  The code reads the clock only through differences                *)
(* (Date.now() - lastRequestTime, Date.now() < tokenExpiry), so instants   *)
(* are kept relative to the present: DateNow is the origin, and the        *)
(* passing of dt milliseconds moves lastRequestTime and tokenExpiry back   *)
(* by dt.  An instant older than the rate-limit interval, or an expiry     *)
(* that is already past, is kept at the edge of its window: the code       *)
(* cannot tell those values apart.                                         *)
(***************************************************************************)
EXTENDS Integers, Sequences, FiniteSets, TLC

\* ---- bounds of the model ------------------------------------------------
MaxPages == 2
MaxRetryCount == 4
Latency == 1000

\* ---- program constants ---------------------------------------------------
MinRequestIntervalMs == 6500
TimeoutMs == 10000
MaxRetries == 3
Max401Retries == 2
SafetyBufferMs == 30000
DefaultExpiresIn == 3600
BackoffBaseMs == 1000
RateLimitBaseMs == 2000
DateNow == 0

Null == "null"
Token == "token"

VARIABLES
    pc,               \* where the thread of control stands
    phase,            \* which part of start() is running
    accessToken,      \* AdPlatformClient.accessToken
    tokenExpiry,      \* AdPlatformClient.tokenExpiry
    lastRequestTime,  \* AdPlatformClient.lastRequestTime
    retryCount,       \* request()'s retryCount of the running frame
    sleepMs,          \* duration of the pending sleep()
    result,           \* what the last request() gave its caller
    response,         \* what the last API request of the running call met
    n429, n5xx, n401, \* retries of the running call, by cause
    warnings,         \* logger.warn calls of the running call
    finalFailureLogs, \* 'Final failure' logger.error calls of the running call
    gap,              \* time between the starts of the last two outbound calls
    numPages,         \* server: number of pages it serves
    malformedPage,    \* server: the page whose body lacks `data` (0: none)
    useMock,          \* config.db.useMock
    pool,             \* DatabaseService.pool
    page, hasMore, allCampaigns, requested,   \* fetchAllCampaigns locals, pages asked
    i, successCount, failureCount,            \* start() locals
    triggered,        \* ids handed to syncCampaign, in order
    upserted,         \* ids handed to upsertCampaign, in order
    outcomes,         \* per processed record: "ok", "trigger" or "persist"
    closeCalls,       \* calls of DatabaseService.close()
    fatal,            \* start() is leaving through its catch block
    exitCode          \* process.exit code (-1: still running)

vars == << pc, phase, accessToken, tokenExpiry, lastRequestTime, retryCount,
           sleepMs, result, response, n429, n5xx, n401, warnings, finalFailureLogs,
           gap, numPages, malformedPage, useMock, pool, page,
           hasMore, allCampaigns, requested, i, successCount, failureCount,
           triggered, upserted, outcomes, closeCalls, fatal, exitCode >>

clientVars == << accessToken, tokenExpiry, lastRequestTime >>
callVars == << retryCount, sleepMs, result, response, n429, n5xx, n401, warnings,
               finalFailureLogs, gap >>
serverVars == << numPages, malformedPage, useMock >>
fetchVars == << page, hasMore, allCampaigns, requested >>
loopVars == << i, successCount, failureCount, triggered, upserted, outcomes >>
exitVars == << closeCalls, fatal, exitCode >>

Max(a, b) == IF a > b THEN a ELSE b

RECURSIVE Pow2(_)
Pow2(k) == IF k = 0 THEN 1 ELSE 2 * Pow2(k - 1)

\* ---- environment: what the server and the network may answer ------------
Latencies == {0, Latency}
ExpiresInChoices == {31, 37}              \* seconds (0 would be: field absent)
AuthFailures == {401, 500, 0}             \* 0: network error, no status
Statuses == {200, 429, 503, 401, 404}
RetryAfterChoices == {-1, 1}              \* -1: no retry-after header

\* Page p of the server holds p records (pages of unequal length, so that a
\* record's place in the whole depends on the place of its page); the ids run
\* on from page to page: <<1>>, <<2, 3>>, <<4, 5, 6>>, ...
PageData(p) == [ j \in 1..p |-> (p * (p - 1)) \div 2 + j ]

PageResponse(p) ==
    IF p = malformedPage
    THEN [ hasData |-> FALSE, data |-> << >>, has_more |-> FALSE ]
    ELSE [ hasData |-> TRUE, data |-> PageData(p), has_more |-> p < numPages ]

\* ---- time -----------------------------------------------------------------
LastAfter(dt) == Max(lastRequestTime - dt, DateNow - MinRequestIntervalMs)
ExpiryAfter(dt) == Max(tokenExpiry - dt, DateNow)

\* ---- AdPlatformClient -----------------------------------------------------
TokenValidNoExpiry == accessToken # Null

TokenValid == accessToken # Null /\ DateNow < tokenExpiry

WaitTimeHalved(timeSinceLastRequest) ==
    (MinRequestIntervalMs - timeSinceLastRequest) \div 2

WaitTime(timeSinceLastRequest) == MinRequestIntervalMs - timeSinceLastRequest

\* enforceRateLimit up to its await: `last` is lastRequestTime as it stands.
\* Either the caller goes to sleep, or the call is issued at once.
EnforceRateLimit(last, sleepPc, sendPc) ==
    LET timeSinceLastRequest == DateNow - last IN
    IF timeSinceLastRequest < MinRequestIntervalMs
    THEN /\ pc' = sleepPc
         /\ sleepMs' = WaitTime(timeSinceLastRequest)
         /\ lastRequestTime' = last
         /\ UNCHANGED gap
    ELSE /\ pc' = sendPc
         /\ sleepMs' = 0
         /\ lastRequestTime' = DateNow
         /\ gap' = timeSinceLastRequest

ExpiresInMs(expires_in) ==
    (IF expires_in = 0 THEN DefaultExpiresIn ELSE expires_in) * 1000

\* request() leaves through its outer catch: the frame that throws logs the
\* final failure only when it is the first frame (retryCount = 0).
Throw(status, auth) ==
    /\ pc' = "thrown"
    /\ result' = [ ok |-> FALSE, status |-> status, auth |-> auth ]
    /\ finalFailureLogs' = IF retryCount = 0 THEN finalFailureLogs + 1
                           ELSE finalFailureLogs

Retry(nextPc, waitMs) ==
    /\ pc' = nextPc
    /\ sleepMs' = waitMs
    /\ retryCount' = retryCount + 1
    /\ warnings' = warnings + 1

NoResult == [ ok |-> FALSE, status |-> -1, auth |-> FALSE ]
NoResponse == [ kind |-> "none", status |-> -1 ]

\* A fresh frame of request(): retryCount = 0, nothing logged yet.
FreshCall ==
    /\ retryCount' = 0
    /\ n429' = 0 /\ n5xx' = 0 /\ n401' = 0
    /\ warnings' = 0
    /\ finalFailureLogs' = 0
    /\ result' = NoResult
    /\ response' = NoResponse
    /\ UNCHANGED << sleepMs, gap >>

BeginRequest ==
    /\ pc' = "getAccessToken"
    /\ FreshCall

\* getAccessToken's cache test, then the synchronous part of what follows.
GetAccessToken ==
    /\ pc = "getAccessToken"
    /\ IF TokenValid
       THEN EnforceRateLimit(lastRequestTime, "apiSleep", "apiFetch")
       ELSE EnforceRateLimit(lastRequestTime, "authSleep", "authFetch")
    /\ UNCHANGED << phase, accessToken, tokenExpiry, retryCount, result, response,
                    n429, n5xx, n401, warnings, finalFailureLogs >>
    /\ UNCHANGED << serverVars, pool, fetchVars, loopVars, exitVars >>

\* enforceRateLimit after its sleep: stamp lastRequestTime and issue the call.
RateLimitWake ==
    /\ pc \in {"apiSleep", "authSleep"}
    /\ tokenExpiry' = ExpiryAfter(sleepMs)
    /\ gap' = DateNow - LastAfter(sleepMs)
    /\ lastRequestTime' = DateNow
    /\ sleepMs' = 0
    /\ pc' = IF pc = "apiSleep" THEN "apiFetch" ELSE "authFetch"
    /\ UNCHANGED << phase, accessToken, retryCount, result, response, n429, n5xx,
                    n401, warnings, finalFailureLogs >>
    /\ UNCHANGED << serverVars, pool, fetchVars, loopVars, exitVars >>

AuthResponseRetries ==
    /\ pc = "authFetch"
    /\ \E lat \in Latencies :
         \/ \E expires_in \in ExpiresInChoices :
              /\ accessToken' = Token
              /\ tokenExpiry' = Max(DateNow + ExpiresInMs(expires_in) - SafetyBufferMs,
                                    DateNow)
              /\ EnforceRateLimit(LastAfter(lat), "apiSleep", "apiFetch")
              /\ UNCHANGED << result, finalFailureLogs, retryCount, warnings >>
         \/ \E status \in AuthFailures :
              /\ tokenExpiry' = ExpiryAfter(lat)
              /\ lastRequestTime' = LastAfter(lat)
              /\ IF retryCount < MaxRetries
                 THEN /\ pc' = "getAccessToken"
                      /\ retryCount' = retryCount + 1
                      /\ warnings' = warnings + 1
                      /\ UNCHANGED << result, finalFailureLogs >>
                 ELSE /\ Throw(status, TRUE)
                      /\ UNCHANGED << retryCount, warnings >>
              /\ UNCHANGED << accessToken, sleepMs, gap >>
    /\ UNCHANGED << phase, response, n429, n5xx, n401 >>
    /\ UNCHANGED << serverVars, pool, fetchVars, loopVars, exitVars >>

\* The answer to POST /auth/token.
AuthResponse ==
    /\ pc = "authFetch"
    /\ \E lat \in Latencies :
         \/ \E expires_in \in ExpiresInChoices :
              /\ accessToken' = Token
              /\ tokenExpiry' = Max(DateNow + ExpiresInMs(expires_in) - SafetyBufferMs,
                                    DateNow)
              /\ EnforceRateLimit(LastAfter(lat), "apiSleep", "apiFetch")
              /\ UNCHANGED << result, finalFailureLogs >>
         \/ \E status \in AuthFailures :
              /\ tokenExpiry' = ExpiryAfter(lat)
              /\ lastRequestTime' = LastAfter(lat)
              /\ Throw(status, TRUE)
              /\ UNCHANGED << accessToken, sleepMs, gap >>
    /\ UNCHANGED << phase, retryCount, response, n429, n5xx, n401, warnings >>
    /\ UNCHANGED << serverVars, pool, fetchVars, loopVars, exitVars >>


\* The wait before the retry that follows a 429: the retry-after header in
\* seconds when the server sent one, else 2000 * 2^retryCount.
RateLimitWaitMs(retryAfter) ==
    IF retryAfter # -1 THEN retryAfter * 1000
    ELSE RateLimitBaseMs * Pow2(retryCount)

BackoffMs == BackoffBaseMs * Pow2(retryCount)

Return ==
    /\ pc' = "returned"
    /\ result' = [ ok |-> TRUE, status |-> 200, auth |-> FALSE ]
    /\ UNCHANGED << retryCount, sleepMs, warnings, finalFailureLogs >>

Surface(status) ==
    /\ Throw(status, FALSE)
    /\ UNCHANGED << retryCount, sleepMs, warnings >>

On429Capped(retryAfter) ==
    IF retryCount < MaxRetries
    THEN /\ Retry("backoff", RateLimitWaitMs(retryAfter))
         /\ n429' = n429 + 1
         /\ UNCHANGED << accessToken, result, finalFailureLogs, n5xx, n401 >>
    ELSE /\ Surface(429)
         /\ UNCHANGED << accessToken, n429, n5xx, n401 >>

\* response.status === 429
On429(retryAfter) ==
    /\ Retry("backoff", RateLimitWaitMs(retryAfter))
    /\ n429' = n429 + 1
    /\ UNCHANGED << accessToken, result, finalFailureLogs, n5xx, n401 >>

On5xxOwnCounter(status) ==
    IF n5xx < MaxRetries
    THEN /\ Retry("backoff", BackoffMs)
         /\ n5xx' = n5xx + 1
         /\ UNCHANGED << accessToken, result, finalFailureLogs, n429, n401 >>
    ELSE /\ Surface(status)
         /\ UNCHANGED << accessToken, n429, n5xx, n401 >>

On5xxOffByOne(status) ==
    IF retryCount <= MaxRetries
    THEN /\ Retry("backoff", BackoffMs)
         /\ n5xx' = n5xx + 1
         /\ UNCHANGED << accessToken, result, finalFailureLogs, n429, n401 >>
    ELSE /\ Surface(status)
         /\ UNCHANGED << accessToken, n429, n5xx, n401 >>

\* response.status >= 500
On5xx(status) ==
    IF retryCount < MaxRetries
    THEN /\ Retry("backoff", BackoffMs)
         /\ n5xx' = n5xx + 1
         /\ UNCHANGED << accessToken, result, finalFailureLogs, n429, n401 >>
    ELSE /\ Surface(status)
         /\ UNCHANGED << accessToken, n429, n5xx, n401 >>

On401OffByOne ==
    /\ accessToken' = Null
    /\ IF retryCount <= Max401Retries
       THEN /\ Retry("getAccessToken", 0)
            /\ n401' = n401 + 1
            /\ UNCHANGED << result, finalFailureLogs, n429, n5xx >>
       ELSE /\ Surface(401)
            /\ UNCHANGED << n429, n5xx, n401 >>

\* response.status === 401: the cached token is dropped, whatever follows.
On401 ==
    /\ accessToken' = Null
    /\ IF retryCount < Max401Retries
       THEN /\ Retry("getAccessToken", 0)
            /\ n401' = n401 + 1
            /\ UNCHANGED << result, finalFailureLogs, n429, n5xx >>
       ELSE /\ Surface(401)
            /\ UNCHANGED << n429, n5xx, n401 >>

OnOtherRetries(status) ==
    /\ IF status \in 200..299 THEN Return
       ELSE IF retryCount < MaxRetries
       THEN /\ Retry("backoff", BackoffMs)
            /\ UNCHANGED << result, finalFailureLogs >>
       ELSE Surface(status)
    /\ UNCHANGED << accessToken, n429, n5xx, n401 >>

\* any other response: !response.ok throws, a 2xx returns the parsed body
OnOther(status) ==
    /\ IF status \notin 200..299 THEN Surface(status) ELSE Return
    /\ UNCHANGED << accessToken, n429, n5xx, n401 >>

OnAbortSilent ==
    /\ IF retryCount < MaxRetries
       THEN /\ pc' = "getAccessToken"
            /\ sleepMs' = 0
            /\ retryCount' = retryCount + 1
            /\ UNCHANGED << warnings, result, finalFailureLogs >>
       ELSE Surface(408)
    /\ UNCHANGED << accessToken, n429, n5xx, n401 >>

\* the AbortController fired after timeoutMs
OnAbort ==
    /\ IF retryCount < MaxRetries
       THEN /\ Retry("getAccessToken", 0)
            /\ UNCHANGED << result, finalFailureLogs >>
       ELSE Surface(408)
    /\ UNCHANGED << accessToken, n429, n5xx, n401 >>

OnNetworkErrorOffByOne ==
    /\ IF retryCount <= MaxRetries
       THEN /\ Retry("backoff", BackoffMs)
            /\ UNCHANGED << result, finalFailureLogs >>
       ELSE Surface(0)
    /\ UNCHANGED << accessToken, n429, n5xx, n401 >>

OnNetworkErrorClearsToken ==
    /\ IF retryCount < MaxRetries
       THEN /\ Retry("backoff", BackoffMs)
            /\ UNCHANGED << result, finalFailureLogs >>
       ELSE Surface(0)
    /\ accessToken' = Null
    /\ UNCHANGED << n429, n5xx, n401 >>

\* fetch rejected with something that is neither an abort nor an ApiError
OnNetworkError ==
    /\ IF retryCount < MaxRetries
       THEN /\ Retry("backoff", BackoffMs)
            /\ UNCHANGED << result, finalFailureLogs >>
       ELSE Surface(0)
    /\ UNCHANGED << accessToken, n429, n5xx, n401 >>

HandleResponse(status, retryAfter) ==
    IF status = 429 THEN On429(retryAfter)
    ELSE IF status >= 500 THEN On5xx(status)
    ELSE IF status = 401 THEN On401
    ELSE OnOther(status)

\* The answer to an API request, or its failure.
ApiResponse ==
    /\ pc = "apiFetch"
    /\ \/ \E lat \in Latencies, status \in Statuses, retryAfter \in RetryAfterChoices :
            /\ status = 429 => retryCount < MaxRetryCount
            /\ status # 429 => retryAfter = -1
            /\ lastRequestTime' = LastAfter(lat)
            /\ tokenExpiry' = IF status = 401 THEN DateNow ELSE ExpiryAfter(lat)
            /\ response' = [ kind |-> "http", status |-> status ]
            /\ HandleResponse(status, retryAfter)
       \/ /\ lastRequestTime' = LastAfter(TimeoutMs)
          /\ tokenExpiry' = ExpiryAfter(TimeoutMs)
          /\ response' = [ kind |-> "abort", status |-> -1 ]
          /\ OnAbort
       \/ \E lat \in Latencies :
            /\ lastRequestTime' = LastAfter(lat)
            /\ tokenExpiry' = ExpiryAfter(lat)
            /\ response' = [ kind |-> "network", status |-> -1 ]
            /\ OnNetworkError
    /\ UNCHANGED << phase, gap >>
    /\ UNCHANGED << serverVars, pool, fetchVars, loopVars, exitVars >>

\* sleep(waitMs) before a retry is over: request(endpoint, options, retryCount + 1)
BackoffWake ==
    /\ pc = "backoff"
    /\ lastRequestTime' = LastAfter(sleepMs)
    /\ tokenExpiry' = ExpiryAfter(sleepMs)
    /\ sleepMs' = 0
    /\ pc' = "getAccessToken"
    /\ UNCHANGED << phase, accessToken, retryCount, result, response, n429, n5xx,
                    n401, warnings, finalFailureLogs, gap >>
    /\ UNCHANGED << serverVars, pool, fetchVars, loopVars, exitVars >>

\* ---- DatabaseService and SyncService --------------------------------------
\* start() up to the await inside db.connect()
Start ==
    /\ pc = "start"
    /\ IF useMock
       THEN /\ pc' = "fetchLoop" /\ phase' = "fetch" /\ UNCHANGED pool
       ELSE /\ pc' = "connecting" /\ phase' = "connect" /\ pool' = "open"
    /\ UNCHANGED << clientVars, callVars, serverVars, fetchVars, loopVars, exitVars >>

\* pool.connect() resolved or rejected
ConnectDone ==
    /\ pc = "connecting"
    /\ \/ /\ pc' = "fetchLoop" /\ phase' = "fetch" /\ UNCHANGED fatal
       \/ /\ pc' = "finally" /\ phase' = "finally" /\ fatal' = TRUE
    /\ UNCHANGED << clientVars, callVars, serverVars, pool, fetchVars, loopVars,
                    closeCalls, exitCode >>

\* while (hasMore): ask for the page, or return allCampaigns to start()
FetchLoop ==
    /\ pc = "fetchLoop"
    /\ IF hasMore
       THEN /\ requested' = Append(requested, page)
            /\ BeginRequest
            /\ UNCHANGED phase
       ELSE /\ pc' = "processLoop"
            /\ phase' = "process"
            /\ UNCHANGED << requested, callVars >>
    /\ UNCHANGED << clientVars, serverVars, pool, page, hasMore, allCampaigns,
                    loopVars, exitVars >>

AccumulateLast(all, data) == data

\* allCampaigns = allCampaigns.concat(response.data)
Accumulate(all, data) == all \o data

PageReturnedStreaming ==
    /\ pc = "returned" /\ phase = "fetch"
    /\ LET body == PageResponse(page) IN
       IF body.hasData
       THEN /\ allCampaigns' = Accumulate(allCampaigns, body.data)
            /\ hasMore' = body.has_more
            /\ page' = IF body.has_more THEN page + 1 ELSE page
       ELSE /\ hasMore' = FALSE
            /\ UNCHANGED << allCampaigns, page >>
    /\ pc' = "processLoop" /\ phase' = "process"
    /\ FreshCall
    /\ UNCHANGED << clientVars, serverVars, pool, requested,
                    loopVars, exitVars >>

PageReturnedStrict ==
    /\ pc = "returned" /\ phase = "fetch"
    /\ LET body == PageResponse(page) IN
       IF body.hasData
       THEN /\ allCampaigns' = Accumulate(allCampaigns, body.data)
            /\ hasMore' = body.has_more
            /\ page' = IF body.has_more THEN page + 1 ELSE page
            /\ pc' = "fetchLoop"
            /\ UNCHANGED << phase, fatal >>
       ELSE /\ pc' = "finally" /\ phase' = "finally" /\ fatal' = TRUE
            /\ UNCHANGED << allCampaigns, page, hasMore >>
    /\ FreshCall
    /\ UNCHANGED << clientVars, serverVars, pool, requested,
                    loopVars, closeCalls, exitCode >>

\* getCampaigns(page) returned `body` (the code's `response`)
PageReturned ==
    /\ pc = "returned" /\ phase = "fetch"
    /\ LET body == PageResponse(page) IN
       IF body.hasData
       THEN /\ allCampaigns' = Accumulate(allCampaigns, body.data)
            /\ hasMore' = body.has_more
            /\ page' = IF body.has_more THEN page + 1 ELSE page
       ELSE /\ hasMore' = FALSE
            /\ UNCHANGED << allCampaigns, page >>
    /\ pc' = "fetchLoop"
    /\ FreshCall
    /\ UNCHANGED << phase, clientVars, serverVars, pool, requested,
                    loopVars, exitVars >>

PageThrownSwallowed ==
    /\ pc = "thrown" /\ phase = "fetch"
    /\ pc' = "processLoop" /\ phase' = "process" /\ UNCHANGED fatal
    /\ FreshCall
    /\ UNCHANGED << clientVars, serverVars, pool, fetchVars, loopVars,
                    closeCalls, exitCode >>

\* getCampaigns(page) threw: start()'s catch, then its finally
PageThrown ==
    /\ pc = "thrown" /\ phase = "fetch"
    /\ pc' = "finally" /\ phase' = "finally" /\ fatal' = TRUE
    /\ FreshCall
    /\ UNCHANGED << clientVars, serverVars, pool, fetchVars, loopVars,
                    closeCalls, exitCode >>

\* for (i ...): trigger the remote sync of campaign i, or finish the loop
ProcessLoop ==
    /\ pc = "processLoop"
    /\ IF i < Len(allCampaigns)
       THEN /\ triggered' = Append(triggered, allCampaigns[i + 1])
            /\ BeginRequest
            /\ UNCHANGED phase
       ELSE /\ pc' = "finally" /\ phase' = "finally"
            /\ UNCHANGED << triggered, callVars >>
    /\ UNCHANGED << clientVars, serverVars, pool, fetchVars, i, successCount,
                    failureCount, upserted, outcomes, exitVars >>

Succeeded ==
    /\ successCount' = successCount + 1
    /\ outcomes' = Append(outcomes, "ok")
    /\ UNCHANGED failureCount

Failed(what) ==
    /\ failureCount' = failureCount + 1
    /\ outcomes' = Append(outcomes, what)
    /\ UNCHANGED successCount

\* syncCampaign returned: upsertCampaign(campaign) up to its await
SyncReturned ==
    /\ pc = "returned" /\ phase = "process"
    /\ upserted' = Append(upserted, allCampaigns[i + 1])
    /\ IF useMock
       THEN /\ Succeeded /\ i' = i + 1 /\ pc' = "processLoop"
       ELSE IF pool = Null
       THEN /\ Failed("persist") /\ i' = i + 1 /\ pc' = "processLoop"
       ELSE /\ pc' = "upserting"
            /\ UNCHANGED << i, successCount, failureCount, outcomes >>
    /\ FreshCall
    /\ UNCHANGED << phase, clientVars, serverVars, pool, fetchVars, triggered,
                    exitVars >>

\* pool.query resolved or rejected
UpsertDone ==
    /\ pc = "upserting"
    /\ \E lat \in Latencies :
         /\ lastRequestTime' = LastAfter(lat)
         /\ tokenExpiry' = ExpiryAfter(lat)
    /\ Succeeded \/ Failed("persist")
    /\ i' = i + 1
    /\ pc' = "processLoop"
    /\ UNCHANGED << phase, accessToken, callVars, serverVars, pool, fetchVars,
                    triggered, upserted, exitVars >>

SyncThrownPersists ==
    /\ pc = "thrown" /\ phase = "process"
    /\ upserted' = Append(upserted, allCampaigns[i + 1])
    /\ Failed("trigger")
    /\ i' = i + 1
    /\ pc' = "processLoop"
    /\ FreshCall
    /\ UNCHANGED << phase, clientVars, serverVars, pool, fetchVars,
                    triggered, exitVars >>

SyncThrownRethrows ==
    /\ pc = "thrown" /\ phase = "process"
    /\ Failed("trigger")
    /\ i' = i + 1
    /\ pc' = "finally" /\ phase' = "finally" /\ fatal' = TRUE
    /\ FreshCall
    /\ UNCHANGED << clientVars, serverVars, pool, fetchVars,
                    triggered, upserted, closeCalls, exitCode >>

\* syncCampaign threw: the per-record catch
SyncThrown ==
    /\ pc = "thrown" /\ phase = "process"
    /\ Failed("trigger")
    /\ i' = i + 1
    /\ pc' = "processLoop"
    /\ FreshCall
    /\ UNCHANGED << phase, clientVars, serverVars, pool, fetchVars,
                    triggered, upserted, exitVars >>

ExitFailsOnAnyFailure ==
    /\ pc' = "exited" /\ phase' = "exited"
    /\ exitCode' = IF fatal \/ failureCount > 0 THEN 1 ELSE 0

\* main() after start() settled
Exit ==
    /\ pc' = "exited" /\ phase' = "exited"
    /\ exitCode' = IF fatal THEN 1 ELSE 0

FinallyOnSuccessOnly ==
    /\ pc = "finally"
    /\ closeCalls' = IF fatal THEN closeCalls ELSE closeCalls + 1
    /\ IF pool # Null /\ ~fatal
       THEN /\ pc' = "closing" /\ UNCHANGED << phase, exitCode >>
       ELSE Exit
    /\ UNCHANGED << clientVars, callVars, serverVars, pool, fetchVars, loopVars, fatal >>

\* finally { await this.db.close() }
Finally ==
    /\ pc = "finally"
    /\ closeCalls' = closeCalls + 1
    /\ IF pool # Null
       THEN /\ pc' = "closing" /\ UNCHANGED << phase, exitCode >>
       ELSE Exit
    /\ UNCHANGED << clientVars, callVars, serverVars, pool, fetchVars, loopVars, fatal >>

\* pool.end() resolved
CloseDone ==
    /\ pc = "closing"
    /\ pool' = "ended"
    /\ Exit
    /\ UNCHANGED << clientVars, callVars, serverVars, fetchVars, loopVars,
                    closeCalls, fatal >>

\* The awaits on a timer or on I/O.
Suspended == {"connecting", "apiSleep", "authSleep", "apiFetch", "authFetch",
              "backoff", "upserting", "closing"}

\* SIGINT: no handler is installed, the process ends where it stands.
Interrupt ==
    /\ pc \in Suspended
    /\ pc' = "killed"
    /\ exitCode' = 130
    /\ UNCHANGED << phase, clientVars, callVars, serverVars, pool, fetchVars,
                    loopVars, closeCalls, fatal >>

Init ==
    /\ pc = "start"
    /\ phase = "idle"
    /\ accessToken = Null
    /\ tokenExpiry = DateNow
    /\ lastRequestTime = DateNow - MinRequestIntervalMs
    /\ retryCount = 0
    /\ sleepMs = 0
    /\ result = NoResult
    /\ response = NoResponse
    /\ n429 = 0 /\ n5xx = 0 /\ n401 = 0
    /\ warnings = 0
    /\ finalFailureLogs = 0
    /\ gap = MinRequestIntervalMs
    /\ numPages \in 1..MaxPages
    /\ malformedPage \in 0..numPages
    /\ useMock \in BOOLEAN
    /\ pool = Null
    /\ page = 1
    /\ hasMore = TRUE
    /\ allCampaigns = << >>
    /\ requested = << >>
    /\ i = 0
    /\ successCount = 0
    /\ failureCount = 0
    /\ triggered = << >>
    /\ upserted = << >>
    /\ outcomes = << >>
    /\ closeCalls = 0
    /\ fatal = FALSE
    /\ exitCode = -1

Next ==
    \/ Start \/ ConnectDone
    \/ FetchLoop \/ PageReturned \/ PageThrown
    \/ ProcessLoop \/ SyncReturned \/ UpsertDone \/ SyncThrown
    \/ GetAccessToken \/ RateLimitWake \/ AuthResponse \/ ApiResponse \/ BackoffWake
    \/ Finally \/ CloseDone
    \/ Interrupt

Spec == Init /\ [][Next]_vars

\* ---- claims -----------------------------------------------------------------
Fresh == accessToken # Null /\ DateNow < tokenExpiry
Sent == {"apiFetch", "authFetch"}
Met(status) == response' = [ kind |-> "http", status |-> status ]
Answered == pc = "apiFetch" /\ pc' # "killed"

\* C1: every outbound call (authentication exchange, first attempt or retry)
\* starts at least minRequestIntervalMs after the start of the one before it,
\* and starts at the instant enforceRateLimit stamped.
QuotaCompliance ==
    /\ gap >= MinRequestIntervalMs
    /\ pc \in Sent => lastRequestTime = DateNow

QuotaWitness ==
    /\ pc = "apiFetch" /\ retryCount >= 2
    /\ n5xx >= 1 /\ n401 >= 1
    /\ gap >= MinRequestIntervalMs

\* C2: with every page well formed and every page call succeeding, the pages
\* are asked 1, 2, ..., P, each once and in that order, and allCampaigns is
\* the pages' data in page order, each record once.
PagesInOrder(n) == [ k \in 1..n |-> k ]

RECURSIVE ServedUpTo(_)
ServedUpTo(p) == IF p = 0 THEN << >> ELSE ServedUpTo(p - 1) \o PageData(p)

PaginationComplete ==
    /\ requested = PagesInOrder(Len(requested))
    /\ (phase = "process" /\ malformedPage = 0) =>
          /\ requested = PagesInOrder(numPages)
          /\ allCampaigns = ServedUpTo(numPages)
          /\ \A a, b \in 1..Len(allCampaigns) :
                a # b => allCampaigns[a] # allCampaigns[b]

PaginationWitness ==
    /\ phase = "process" /\ malformedPage = 0
    /\ numPages >= 2
    /\ Len(allCampaigns) >= 3

\* C3: a 5xx met with retryCount = k < maxRetries is followed by a sleep of
\* 1000 * 2^k and a retry with counter k + 1; met with k >= maxRetries it is
\* surfaced with its status and the call makes no further attempt.  Three
\* 5xx then a 200 return the payload; four 5xx surface the error (a call
\* whose authentication exchange failed on the way is another matter).
ServerErrorPolicy ==
    /\ [][ (Answered /\ \E st \in Statuses : st >= 500 /\ Met(st)) =>
             IF retryCount < MaxRetries
             THEN /\ pc' = "backoff"
                  /\ sleepMs' = 1000 * Pow2(retryCount)
                  /\ retryCount' = retryCount + 1
             ELSE /\ pc' = "thrown"
                  /\ ~result'.ok
                  /\ result'.status = response'.status ]_vars
    /\ [][ pc = "backoff" => pc' \in {"getAccessToken", "killed"} ]_vars
    /\ [][ pc = "thrown" => pc' \in {"finally", "processLoop"} ]_vars
    /\ [] ( (pc \in {"returned", "thrown"} /\ n5xx = 3 /\ retryCount = 3
               /\ response.kind = "http") =>
            /\ response.status = 200 => (pc = "returned" /\ result.ok)
            /\ (response.status >= 500 /\ ~result.auth) =>
                  (pc = "thrown" /\ result.status = response.status) )

ServerErrorWitness ==
    /\ pc = "returned" /\ result.ok
    /\ n5xx = 3 /\ retryCount = 3

\* C4: a 429 is retried whatever retryCount is and never surfaces an error by
\* itself; n 429s in a row followed by a 200 return the payload, also for
\* n > maxRetries.
RateLimitNeverExhausts ==
    /\ [][ (Answered /\ Met(429)) =>
             /\ pc' = "backoff"
             /\ retryCount' = retryCount + 1
             /\ result' = result ]_vars
    /\ [] ( (pc \in {"returned", "thrown"} /\ n429 = retryCount
               /\ response = [ kind |-> "http", status |-> 200 ]) =>
            (pc = "returned" /\ result.ok) )

RateLimitWitness ==
    /\ pc = "returned" /\ result.ok
    /\ n429 = retryCount /\ retryCount > MaxRetries

\* C5: every 401 clears the cached token; one call makes at most 2 retries
\* because of 401s, and a 401 met once 2 such retries were made is surfaced
\* with status 401.
UnauthorizedPolicy ==
    /\ [][ (Answered /\ Met(401)) =>
             /\ accessToken' = Null /\ tokenExpiry' = 0
             /\ n401 = Max401Retries =>
                   (pc' = "thrown" /\ ~result'.ok /\ result'.status = 401) ]_vars
    /\ [] (n401 <= 2)

UnauthorizedWitness ==
    /\ pc = "thrown" /\ n401 = 2 /\ retryCount = 2
    /\ result.status = 401
    /\ accessToken = Null

\* C6: an authentication exchange is issued only when there is no cached
\* token or it is past tokenExpiry; a token check that finds a fresh token
\* goes on to the API request with no exchange, and one that finds none
\* makes one exchange, after which the API request follows.
TokenReuse ==
    /\ [][ (pc' = "authFetch" /\ pc # "authFetch") => ~Fresh ]_vars
    /\ [][ pc = "getAccessToken" =>
             IF Fresh THEN pc' \in {"apiSleep", "apiFetch"}
             ELSE pc' \in {"authSleep", "authFetch"} ]_vars
    /\ [][ pc = "authFetch" =>
             pc' \in {"apiSleep", "apiFetch", "thrown", "killed"} ]_vars

\* a later call that found an earlier call's token still fresh: the token is
\* older than the call before this one
TokenReuseWitness ==
    /\ pc = "apiSleep" /\ phase = "process"
    /\ retryCount = 0
    /\ Fresh /\ tokenExpiry < 1000

\* C7: a request that is being sent carries a token that is not past its
\* cached expiry.
TokenFreshWhenSent == pc = "apiFetch" => Fresh

\* C8: every fetched record is processed once, in order, whether the one
\* before it failed or not; each adds one to successCount or to failureCount;
\* the loop ends with successCount + failureCount = total and start() returns
\* normally.
PartialFailureIsolation ==
    /\ i = successCount + failureCount
    /\ i = Len(outcomes)
    /\ failureCount = Cardinality({ k \in 1..Len(outcomes) : outcomes[k] # "ok" })
    /\ Len(triggered) \in {i, i + 1}
    /\ Len(triggered) <= Len(allCampaigns)
    /\ triggered = SubSeq(allCampaigns, 1, Len(triggered))
    /\ Len(triggered) > 0 => ~fatal
    /\ (phase \in {"finally", "exited"} /\ ~fatal) => i = Len(allCampaigns)
    /\ (pc = "exited" /\ ~fatal) => exitCode = 0

PartialFailureWitness ==
    /\ pc = "exited" /\ exitCode = 0
    /\ Len(outcomes) = 3
    /\ outcomes[1] = "persist" /\ outcomes[2] = "trigger" /\ outcomes[3] = "ok"

\* C9: when start() has ended, by whichever path, close() was called once,
\* and no upsert follows a close().
SinkReleased ==
    /\ [] (closeCalls <= 1)
    /\ [] (pc = "exited" => closeCalls = 1)
    /\ [][ closeCalls >= 1 => upserted' = upserted ]_vars

SinkReleasedWitness ==
    /\ pc = "exited" /\ fatal
    /\ closeCalls = 1
    /\ Len(requested) >= 1

\* C10: an interrupt that arrives during a sleep or a network wait is followed
\* by close() before the process ends.
InterruptReleasesSink == pc = "killed" => closeCalls >= 1

\* C11: a timeout or a network error met with retryCount = k < maxRetries is
\* followed by a backoff sleep of 1000 * 2^k and then the retry with counter
\* k + 1; met with k >= maxRetries it is surfaced with no further attempt.
TransientErrorBackoff ==
    [][ (Answered /\ response'.kind \in {"abort", "network"}) =>
          IF retryCount < MaxRetries
          THEN /\ pc' = "backoff"
               /\ sleepMs' = BackoffBaseMs * Pow2(retryCount)
               /\ retryCount' = retryCount + 1
          ELSE /\ pc' = "thrown"
               /\ ~result'.ok ]_vars

\* C12: a call of request() that ends by surfacing an error has logged one
\* 'Final failure' error, whether it failed on its first attempt or after
\* retries; a call that returns has logged none.
FinalFailureLoggedOnce ==
    /\ pc = "thrown" => finalFailureLogs = 1
    /\ pc = "returned" => finalFailureLogs = 0

\* C13: a call that ends with a failed credential exchange or with a 401 past
\* its 401 retries ends the run as fatally failed, during pagination and
\* during the per-record phase alike.
AuthError == pc = "thrown" /\ (result.auth \/ result.status = 401)

AuthErrorFatal ==
    [][ AuthError => (fatal' /\ pc' = "finally") ]_vars

\* C13, as the code has it: such a call is fatal while the pages are fetched
\* (start() throws, exit code 1, no record processed); during the per-record
\* phase it is counted as that record's failure and the loop goes on.
AuthErrorFatalInPagination ==
    /\ [][ AuthError =>
             IF phase = "fetch"
             THEN /\ fatal' /\ pc' = "finally"
                  /\ triggered' = << >> /\ upserted' = << >>
             ELSE /\ ~fatal' /\ pc' = "processLoop"
                  /\ failureCount' = failureCount + 1
                  /\ i' = i + 1 ]_vars
    /\ [] ((pc = "exited" /\ fatal) => (exitCode = 1 /\ triggered = << >>))

AuthErrorWitness ==
    /\ AuthError /\ result.auth
    /\ phase = "process"
    /\ failureCount >= 1 /\ successCount >= 1

\* C14: when connect() or fetchAllCampaigns() fails, start() throws and the
\* process exits with a non-zero code, no record having been triggered or
\* upserted; a run that leaves the processing loop at its end exits with
\* code 0, whatever failureCount is.
ExitCodes ==
    /\ [][ (pc = "connecting" /\ pc' \notin {"fetchLoop", "killed"}) =>
             (fatal' /\ pc' = "finally") ]_vars
    /\ [][ (pc = "thrown" /\ phase = "fetch") => (fatal' /\ pc' = "finally") ]_vars
    /\ [][ (phase = "process" /\ phase' = "finally") =>
             (~fatal' /\ i = Len(allCampaigns)) ]_vars
    /\ [] (fatal => (triggered = << >> /\ upserted = << >> /\ i = 0))
    /\ [] (pc = "exited" => exitCode = IF fatal THEN 1 ELSE 0)

ExitCodesWitness ==
    /\ pc = "exited" /\ exitCode = 0
    /\ failureCount >= 2
    /\ successCount = 0

\* C15: a response with a status in 400..499 other than 401 and 429 is
\* surfaced at once with that status: no retry, no warning, no sleep,
\* whatever retryCount is.
ClientErrorPolicy ==
    [][ (Answered /\ \E st \in Statuses :
                        st \in (400..499) \ {401, 429} /\ Met(st)) =>
          /\ pc' = "thrown"
          /\ ~result'.ok /\ ~result'.auth
          /\ result'.status = response'.status
          /\ retryCount' = retryCount
          /\ warnings' = warnings
          /\ sleepMs' = sleepMs ]_vars

ClientErrorWitness ==
    /\ pc = "thrown" /\ result.status = 404
    /\ retryCount >= 1 /\ retryCount < MaxRetries

\* C16: an authentication exchange either succeeds, and the API request
\* follows, or fails, and then the call ends at once with that error: no
\* retry is counted, no warning logged, no sleep taken, and the next thing to
\* run is the caller's handler, whatever retry budget was left.
AuthFailureNotRetried ==
    /\ [][ (pc = "authFetch" /\ pc' # "killed") =>
             \/ /\ accessToken' = Token
                /\ pc' \in {"apiSleep", "apiFetch"}
                /\ result' = result
             \/ /\ pc' = "thrown"
                /\ ~result'.ok /\ result'.auth
                /\ accessToken' = accessToken
                /\ retryCount' = retryCount
                /\ warnings' = warnings ]_vars
    /\ [][ (pc = "thrown" /\ result.auth) =>
             /\ pc' \in {"finally", "processLoop"}
             /\ gap' = gap
             /\ lastRequestTime' = lastRequestTime ]_vars

AuthFailureWitness ==
    /\ pc = "thrown" /\ result.auth
    /\ retryCount = 1 /\ n401 = 1

\* C17: the phases follow one another in the order connect, fetch, process,
\* completed (a failure leads to the release of the sink from any of them);
\* nothing is triggered or upserted before the page loop has ended, and no
\* page is asked before connect() returned or once processing has begun.
PhaseSteps ==
    { << "idle", "connect" >>, << "idle", "fetch" >>, << "connect", "fetch" >>,
      << "connect", "finally" >>, << "fetch", "process" >>,
      << "fetch", "finally" >>, << "process", "finally" >>,
      << "finally", "exited" >> }

PhaseOrder ==
    /\ [][ phase' # phase => << phase, phase' >> \in PhaseSteps ]_vars
    /\ [][ (phase = "idle" /\ phase' = "fetch") => useMock ]_vars
    /\ [][ (phase = "fetch" /\ phase' = "process") => ~hasMore ]_vars
    /\ [] (phase \in {"idle", "connect", "fetch"} =>
             (triggered = << >> /\ upserted = << >>))
    /\ [] (phase \in {"idle", "connect"} => requested = << >>)
    /\ [][ (phase \in {"process", "finally", "exited"}) =>
             (requested' = requested /\ allCampaigns' = allCampaigns) ]_vars

PhaseOrderWitness ==
    /\ phase = "exited" /\ ~fatal /\ ~useMock
    /\ Len(requested) = 2
    /\ Len(upserted) >= 2

\* C18: when page N comes back without its data, the page loop ends with no
\* error: no page after N is asked, allCampaigns is what pages 1..N-1 held,
\* and the run goes on to the processing phase.
MalformedPageStops ==
    /\ [][ (pc = "returned" /\ phase = "fetch" /\ page = malformedPage) =>
             /\ hasMore' = FALSE
             /\ allCampaigns' = allCampaigns
             /\ pc' = "fetchLoop" /\ ~fatal' ]_vars
    /\ [][ (pc = "fetchLoop" /\ page = malformedPage /\ ~hasMore) =>
             (phase' = "process" /\ requested' = requested) ]_vars
    /\ [] (malformedPage # 0 => Len(requested) <= malformedPage)
    /\ [] ((malformedPage # 0 /\ phase = "process") =>
             /\ requested = PagesInOrder(malformedPage)
             /\ allCampaigns = ServedUpTo(malformedPage - 1)
             /\ ~fatal)

MalformedPageWitness ==
    /\ phase = "process" /\ malformedPage = 2
    /\ allCampaigns = PageData(1)
    /\ Len(triggered) = 1

\* C19: within a call every retry, whatever its cause, logs one warning
\* before the next attempt, and nothing else logs one: the call's warnings
\* equal its retryCount, so 503, 503, 503, 200 leaves 3 warnings.
Retried ==
    /\ pc = "apiFetch"
    /\ pc' \in {"backoff", "getAccessToken"}

OneWarningPerRetry ==
    /\ [][ Retried => (warnings' = warnings + 1
                         /\ retryCount' = retryCount + 1) ]_vars
    /\ [][ warnings' # warnings => (Retried \/ warnings' = 0) ]_vars
    /\ [] (warnings = retryCount)
    /\ [] (warnings >= n429 + n5xx + n401)
    /\ [] ((pc = "returned" /\ n5xx = 3 /\ retryCount = 3) => warnings = 3)

OneWarningWitness ==
    /\ pc = "returned" /\ warnings = 4
    /\ n429 = 1 /\ n5xx = 1 /\ n401 = 1

\* C20: accessToken changes only when an authentication exchange succeeds
\* (it is set) or a 401 arrives (it is cleared, tokenExpiry with it); the
\* expiry instant is moved only by those two.  A failed exchange, a 429, a
\* 5xx, another 4xx, a timeout and a network error leave both as they were
\* (tokenExpiry, counted from now, only comes nearer as time passes).
Exchanged == pc = "authFetch" /\ pc' \in {"apiSleep", "apiFetch"}

CredentialFrame ==
    /\ [][ accessToken' # accessToken =>
             \/ Exchanged /\ accessToken' = Token
             \/ Answered /\ Met(401) /\ accessToken' = Null
                  /\ tokenExpiry' = 0 ]_vars
    /\ [][ tokenExpiry' > tokenExpiry => (Exchanged /\ accessToken' = Token) ]_vars
    /\ [][ (~Exchanged /\ ~(Answered /\ Met(401))) =>
             /\ accessToken' = accessToken
             /\ \E dt \in {0, Latency, TimeoutMs, sleepMs} :
                   tokenExpiry' = ExpiryAfter(dt) ]_vars

CredentialFrameWitness ==
    /\ pc = "backoff" /\ response.kind = "network"
    /\ n429 >= 1 /\ n5xx >= 1
    /\ accessToken = Token /\ tokenExpiry > 0

\* C21: every retry, whatever its cause, adds one to the same retryCount; a
\* 5xx, a timeout or a network error is retried exactly when retryCount,
\* which counts the retries of every cause, is below maxRetries, and a 401
\* exactly when it is below 2; so the first 5xx that follows maxRetries or
\* more retries made for 429s is surfaced with no retry.
Transient ==
    \/ \E st \in Statuses : st >= 500 /\ Met(st)
    \/ response'.kind \in {"abort", "network"}

SharedAttemptCounter ==
    /\ [] (retryCount >= n429 + n5xx + n401)
    /\ [][ Retried => retryCount' = retryCount + 1 ]_vars
    /\ [][ (Answered /\ Transient) =>
             (Retried <=> retryCount < MaxRetries) ]_vars
    /\ [][ (Answered /\ Met(401)) =>
             (Retried <=> retryCount < Max401Retries) ]_vars
    /\ [][ (Answered /\ Transient /\ response'.kind = "http"
              /\ n5xx = 0 /\ n429 >= MaxRetries) =>
             /\ pc' = "thrown"
             /\ result'.status = response'.status
             /\ retryCount' = retryCount ]_vars

SharedCounterWitness ==
    /\ pc = "thrown" /\ result.status = 503
    /\ n5xx = 0 /\ n429 = MaxRetries /\ retryCount = MaxRetries

\* C22: a call that meets no 429 issues its API request at most
\* maxRetries + 1 times and then ends, returned or thrown.  Every step of
\* such a call lowers CallRank: the counter only grows, up to maxRetries,
\* and within one frame the call only moves forward (token check, rate-limit
\* sleep, exchange, rate-limit sleep, API request), so each frame issues the
\* API request at most once and the call cannot go on for ever.
InCall == {"getAccessToken", "authSleep", "authFetch", "apiSleep", "apiFetch",
           "backoff"}

CallStage(p) ==
    CASE p = "backoff" -> 6
      [] p = "getAccessToken" -> 5
      [] p = "authSleep" -> 4
      [] p = "authFetch" -> 3
      [] p = "apiSleep" -> 2
      [] p = "apiFetch" -> 1
      [] OTHER -> 0

CallRank == (MaxRetries + 1 - retryCount) * 7 + CallStage(pc)

BoundedAttempts ==
    /\ [] ((pc \in InCall /\ n429 = 0) => retryCount <= MaxRetries)
    /\ [] ((pc = "apiFetch" /\ n429 = 0) => retryCount + 1 <= MaxRetries + 1)
    /\ [][ (pc \in InCall /\ n429' = 0) =>
             (CallRank' < CallRank /\ CallRank' >= 0) ]_vars
    /\ [][ (Answered /\ n429 = 0 /\ retryCount = MaxRetries /\ ~Met(429)) =>
             pc' \in {"returned", "thrown"} ]_vars

BoundedAttemptsWitness ==
    /\ pc = "thrown" /\ n429 = 0
    /\ retryCount = MaxRetries
    /\ n401 = 1 /\ n5xx = 1
    /\ response.kind = "abort"

\* C23: upsertCampaign is called for a record only once that record's
\* syncCampaign has returned, and after it; a record whose trigger failed is
\* not handed to the sink; a record is counted as a success only when its
\* trigger returned and its upsert succeeded.
Written == { upserted[k] : k \in 1..Len(upserted) }

PersistAfterTrigger ==
    /\ [][ upserted' # upserted =>
             /\ pc = "returned" /\ phase = "process" /\ result.ok
             /\ Len(triggered) = i + 1
             /\ triggered[i + 1] = allCampaigns[i + 1]
             /\ upserted' = Append(upserted, allCampaigns[i + 1]) ]_vars
    /\ [][ (pc = "thrown" /\ phase = "process") =>
             (upserted' = upserted /\ successCount' = successCount) ]_vars
    /\ [][ successCount' # successCount =>
             /\ successCount' = successCount + 1
             /\ allCampaigns[i + 1] \in Written'
             /\ \/ pc = "upserting"
                \/ pc = "returned" /\ result.ok /\ useMock ]_vars
    /\ [] (Len(upserted) <= Len(triggered))
    /\ [] (\A k \in 1..Len(outcomes) :
             /\ outcomes[k] = "trigger" => allCampaigns[k] \notin Written
             /\ outcomes[k] = "ok" => allCampaigns[k] \in Written)

PersistAfterTriggerWitness ==
    /\ pc = "exited" /\ ~useMock
    /\ Len(outcomes) = 3
    /\ outcomes[1] = "ok" /\ outcomes[2] = "trigger" /\ outcomes[3] = "persist"
    /\ Len(upserted) = 2

====
